---- MODULE Spec2Model ----
(***************************************************************************)
(* Model of target_hdfs.persist_messages: a producer (running in the      *)
(* calling process) parses Singer messages and enqueues work items on a   *)
(* multiprocessing Queue; a consumer process dequeues them, batches the   *)
(* records per stream and flushes the batches as files.                   *)
(*                                                                         *)
(* The consumer calls helpers.write_file_to_hdfs by keyword               *)
(* (pyarrow_tables, pyarrow_schema, config, files_created_list); the      *)
(* definition under src/target_hdfs/helpers.py names the same arguments   *)
(* dataframes and schema.  The model takes the body of that definition    *)
(* with the arguments bound by role.                                      *)
(***************************************************************************)
EXTENDS Integers, Sequences, FiniteSets, TLC

\* ---------------------------------------------------------------- bounds
Streams == {"A", "B"}
\* number of input lines read in one run
MaxInput == 4
\* checkpoint values carried by STATE messages
MaxStateValue == 2
\* number of input lines of the runs with a byte-size threshold
MaxBytesInput == 5
\* The consumer materializes the pending buffer every 1000 rows
\* (__init__.py:177).  The model is parametric in this period and is
\* checked with a small one so that materialization happens within the
\* bounded inputs.
DrainEvery == 2

\* ------------------------------------------------------------- constants
\* bytes_to_mb divides by 1024 * 1024; records of the model weigh half a MB or one
BytesPerMb == 1048576
HalfMb == BytesPerMb \div 2

\* ------------------------------------------------------------ data model
Absent == <<>>
NoStream == "None"
NoErr == [kind |-> "none", stream |-> ""]

\* MessageType.EOF work item, carrying the _break_object
EOFItem == [type |-> "EOF", stream |-> "", id |-> 0, size |-> 0, sch |-> 0]
NoItem == [type |-> "none", stream |-> "", id |-> 0, size |-> 0, sch |-> 0]

Msg(t, s, v, ok, z) == [type |-> t, stream |-> s, value |-> v, valid |-> ok, size |-> z]

SchemaMsgs(S) == {Msg("SCHEMA", s, 0, TRUE, 0) : s \in S}
RecordMsgs(S, Z) == {Msg("RECORD", s, 0, TRUE, z) : s \in S, z \in Z}
InvalidRecordMsgs(S) == {Msg("RECORD", s, 0, FALSE, HalfMb) : s \in S}
StateMsgs == {Msg("STATE", "", v, TRUE, 0) : v \in 1..MaxStateValue}
\* a message singer parses whose type is none of RECORD, STATE, SCHEMA
UnknownMsg == Msg("UNKNOWN", "", 0, TRUE, 0)
\* a line that is not JSON
MalformedMsg == Msg("MALFORMED", "", 0, TRUE, 0)

AllMessages ==
    SchemaMsgs(Streams) \cup RecordMsgs(Streams, {HalfMb})
        \cup InvalidRecordMsgs(Streams) \cup StateMsgs
        \cup {UnknownMsg, MalformedMsg}

\* TargetConfig: rows_per_file, file_size_mb, max_queue_size (0 = not set)
Cfg(r, b, q) == [rows_per_file |-> r, file_size_mb |-> b, max_queue_size |-> q]

Configs ==
    { Cfg(0, 0, 0), Cfg(0, 0, 1), Cfg(1, 0, 2), Cfg(2, 0, 1), Cfg(0, 1, 0) }

VARIABLES
    config,               \* TargetConfig of the run
    read,                 \* the input lines the producer has read so far
    pc,                   \* position of the calling process
    state,                \* producer: state
    schemas,              \* producer: schemas / validators (same keys)
    err,                  \* producer: the exception being raised
    pending,              \* producer: the item of a put waiting for room
    queue,                \* messages_queue
    put_log,              \* every item put on the queue, in order
    got_log,              \* every item got from the queue, in order
    cpc,                  \* position of the consumer process
    cerr,                 \* the exception that ended the consumer
    current_stream_name,  \* consumer locals ...
    records,
    records_count,
    pyarrow_tables,
    pyarrow_schemas,
    files,                \* the files uploaded to the store, in order
    ret,                  \* value persist_messages returned
    stdout                \* lines emit_state wrote

pvars == <<read, pc, state, schemas, err, pending, ret, stdout>>
cvars == <<cpc, cerr, current_stream_name, records, records_count,
           pyarrow_tables, pyarrow_schemas, files, got_log>>

\* the remote store and one append run against it (utils/hdfs.py)
VARIABLES
    hdfs,                 \* the store: path -> object, for the paths that exist
    clock,                \* the store's modification clock
    expected_schema,      \* the physical schema the caller of the resolver expects
    block_size_limit,     \* the caller's configured size limit (0: none)
    rpc,                  \* position of the append run
    runs,                 \* append runs started so far
    crashes,              \* append runs that crashed so far
    result,               \* outcome of the last read_most_recent_file
    table,                \* the run's table: rows read back plus its new rows
    target,               \* name of the file the run publishes
    uploading,            \* path helpers.upload_to_hdfs is copying to
    uploads,              \* helpers.upload_to_hdfs calls so far
    original              \* the rows the store held at the start

svars == <<hdfs, clock, expected_schema, block_size_limit, rpc, runs, crashes,
           result, table, target, uploading, uploads, original>>

\* helpers.flatten and the two _field_type_to_pyarrow_field, each applied
\* to one input
VARIABLES
    dictionary,           \* flatten: the raw record
    flat_schema,          \* flatten: the flattened schema of the stream
    items,                \* flatten: the dict returned
    fpc,                  \* flatten: "ready" before the call, "done" after
    input_types,          \* type mapper: the declared types of one field
    field,                \* type mapper: the outcome for the field
    mpc                   \* type mapper: "ready", or the function applied

fvars == <<dictionary, flat_schema, items, fpc>>
mvars == <<input_types, field, mpc>>

\* one hdfsSink of sinks.py, from its construction to clean_up
VARIABLES
    stream_name,             \* the stream of the sink
    sync_started_at,         \* milliseconds, the start of the sync
    max_pyarrow_table_size,  \* config, in MB
    pyarrow_df,              \* self.pyarrow_df: the table, if some
    temp_output_path,        \* the output directory: file name -> rows
    written,                 \* every write_parquet_file so far, in order
    received,                \* records of the batches processed so far
    kpc                      \* "off", "open", or "closed" after clean_up

kvars == <<stream_name, sync_started_at, max_pyarrow_table_size, pyarrow_df,
           temp_output_path, written, received, kpc>>

\* the variables of the pipeline's helpers when they are checked on their own
xvars == <<svars, fvars, mvars, kvars>>

\* the variables of persist_messages
vars_pipeline ==
    <<config, read, pc, state, schemas, err, pending, queue, put_log,
      got_log, cpc, cerr, current_stream_name, records, records_count,
      pyarrow_tables, pyarrow_schemas, files, ret, stdout>>

vars == <<vars_pipeline, xvars>>

\* ------------------------------------------------------------- sequences
RECURSIVE SumSizes(_)
SumSizes(rows) ==
    IF rows = <<>> THEN 0 ELSE Head(rows).size + SumSizes(Tail(rows))

RECURSIVE SelectType(_, _)
SelectType(s, T) ==
    IF s = <<>> THEN <<>>
    ELSE IF Head(s).type \in T THEN <<Head(s)>> \o SelectType(Tail(s), T)
         ELSE SelectType(Tail(s), T)

IsPrefix(s, t) == Len(s) <= Len(t) /\ SubSeq(t, 1, Len(s)) = s

Last(s) == s[Len(s)]

\* dict helpers: d[k] = v and del d[k]
DictSet(d, k, v) == [x \in DOMAIN d \cup {k} |-> IF x = k THEN v ELSE d[x]]
\* variant: del d[k] leaves the entry in place
DictDelNothing(d, k) == d

DictDel(d, k) == [x \in DOMAIN d \ {k} |-> d[x]]

\* ---------------------------------------------------------------- queue
\* variant: the queue is never full
HasRoomAlways(q, c) == TRUE

\* Queue() if not config.max_queue_size else Queue(config.max_queue_size)
HasRoom(q, c) == c.max_queue_size = 0 \/ Len(q) < c.max_queue_size

\* variant: the item is put at the head of the queue
EnqueueAtFront(q, item) == <<item>> \o q

\* w_queue.put
Enqueue(q, item) == Append(q, item)

\* receiver.get
QueueFront(q) == Head(q)

\* ------------------------------------------------------------- producer
\* variant: a RECORD leaves the state as it is
StateAfterKeptOnRecord(type, value, st) ==
    IF type = "STATE" THEN <<value>> ELSE st

\* the assignments to state: None after a RECORD is put, the value on STATE
StateAfter(type, value, st) ==
    CASE type = "RECORD" -> Absent
      [] type = "STATE" -> <<value>>
      [] OTHER -> st

\* variant: any schema seen makes a record legal
SchemaMissingWhenNone(stream, schs) == DOMAIN schs = {}

\* stream_name not in schemas
SchemaMissing(stream, schs) == stream \notin DOMAIN schs

\* schemas[stream_name], read only after the membership test above
SchemaOf(stream, schs) == IF stream \in DOMAIN schs THEN schs[stream] ELSE 0

\* the outcome of the body of the for loop on one line, up to its put:
\* the exception raised (if any), the work item to put (if any) and the
\* schemas dict
HandleLine(msg, idx, schs) ==
    CASE msg.type = "MALFORMED" ->
            [err |-> [kind |-> "ParseError", stream |-> ""],
             item |-> NoItem, schemas |-> schs]
      [] msg.type = "RECORD" ->
            IF SchemaMissing(msg.stream, schs)
            THEN [err |-> [kind |-> "ValueError", stream |-> msg.stream],
                  item |-> NoItem, schemas |-> schs]
            ELSE IF ~msg.valid
            THEN [err |-> [kind |-> "ValidationError", stream |-> msg.stream],
                  item |-> NoItem, schemas |-> schs]
            ELSE [err |-> NoErr,
                  item |-> [type |-> "RECORD", stream |-> msg.stream,
                            id |-> idx, size |-> msg.size,
                            sch |-> SchemaOf(msg.stream, schs)],
                  schemas |-> schs]
      [] msg.type = "SCHEMA" ->
            [err |-> NoErr,
             item |-> [type |-> "SCHEMA", stream |-> msg.stream, id |-> idx,
                       size |-> 0, sch |-> idx],
             schemas |-> DictSet(schs, msg.stream, idx)]
      [] OTHER ->
            [err |-> NoErr, item |-> NoItem, schemas |-> schs]

\* variant: the exception is swallowed and the state returned
AfterPutSwallowing(item, e) ==
    IF item.type # "EOF" THEN "reading" ELSE "joining"

\* where the calling process goes once a put has completed
AfterPut(item, e) ==
    IF item.type # "EOF" THEN "reading"
    ELSE IF e = NoErr THEN "joining" ELSE "raised"

\* w_queue.put(item): completes when the queue has room, blocks otherwise
Put(item, e) ==
    IF HasRoom(queue, config)
    THEN /\ queue' = Enqueue(queue, item)
         /\ put_log' = Append(put_log, item)
         /\ pending' = NoItem
         /\ state' = StateAfter(item.type, 0, state)
         /\ pc' = AfterPut(item, e)
    ELSE /\ pending' = item
         /\ pc' = "blocked"
         /\ UNCHANGED <<queue, put_log, state>>

\* variant: the failing line is skipped and the loop goes on
OnExceptionSkippingLine(e) ==
    /\ pc' = "reading"
    /\ UNCHANGED <<pending, queue, put_log, state>>

\* variant: the exception is re-raised without the sentinel
OnExceptionNoSentinel(e) ==
    /\ pc' = "raised"
    /\ UNCHANGED <<pending, queue, put_log, state>>

\* except Exception as err: w_queue.put(EOF); raise err
OnException(e) == Put(EOFItem, e)

\* one iteration of "for message in message_buffer", on an input of at most
\* n lines
ReadLine(msg, n) ==
    /\ pc = "reading"
    /\ Len(read) < n
    /\ read' = Append(read, msg)
    /\ LET o == HandleLine(msg, Len(read) + 1, schemas) IN
        /\ schemas' = o.schemas
        /\ err' = o.err
        /\ IF o.err # NoErr THEN OnException(o.err)
           ELSE IF o.item # NoItem THEN Put(o.item, o.err)
           ELSE /\ state' = StateAfter(msg.type, msg.value, state)
                /\ UNCHANGED <<pc, pending, queue, put_log>>
    /\ UNCHANGED <<config, ret, stdout>>
    /\ UNCHANGED cvars
    /\ UNCHANGED xvars

\* the input is exhausted: w_queue.put(EOF); return state
EndOfInput ==
    /\ pc = "reading"
    /\ Put(EOFItem, NoErr)
    /\ UNCHANGED <<config, read, schemas, err, ret, stdout>>
    /\ UNCHANGED cvars
    /\ UNCHANGED xvars

\* a blocked put completes once the consumer has made room
ResumePut ==
    /\ pc = "blocked"
    /\ HasRoom(queue, config)
    /\ Put(pending, err)
    /\ UNCHANGED <<config, read, schemas, err, ret, stdout>>
    /\ UNCHANGED cvars
    /\ UNCHANGED xvars

\* process_consumer.join(); return state
Join ==
    /\ pc = "joining"
    /\ cpc \in {"done", "crashed"}
    /\ pc' = "returned"
    /\ ret' = state
    /\ UNCHANGED <<config, read, state, schemas, err, pending, queue, put_log,
                   stdout>>
    /\ UNCHANGED cvars
    /\ UNCHANGED xvars

\* emit_state(state)
EmitState(out, st) == IF st # Absent THEN Append(out, st) ELSE out

\* main, after persist_messages returned
MainEmit ==
    /\ pc = "returned"
    /\ stdout' = EmitState(stdout, ret)
    /\ pc' = "exit"
    /\ UNCHANGED <<config, read, state, schemas, err, pending, queue, put_log,
                   ret>>
    /\ UNCHANGED cvars
    /\ UNCHANGED xvars

\* ------------------------------------------------------------- consumer
\* the flattened schema a work item carries, named by the input line that
\* declared it: its content is that line's schema
ContentOf(idx) == IF idx \in 1..Len(read) THEN read[idx].value ELSE 0

\* pa.table(data): the column types are inferred from the values, which is
\* possible when all records were validated against one schema content
Inferable(buffer) ==
    \A i, j \in 1..Len(buffer) : ContentOf(buffer[i].sch) = ContentOf(buffer[j].sch)

\* .cast(schema): an integer column casts to string, a string column does
\* not cast to integer
Castable(from, to) == from = to \/ (from = 1 /\ to = 2)

\* variant: the table holds the records last first
MaterializedReversed(buffer, schema) ==
    [i \in 1..Len(buffer) |->
        [type |-> buffer[Len(buffer) + 1 - i].type,
         stream |-> buffer[Len(buffer) + 1 - i].stream,
         id |-> buffer[Len(buffer) + 1 - i].id,
         size |-> buffer[Len(buffer) + 1 - i].size,
         sch |-> buffer[Len(buffer) + 1 - i].sch,
         mat |-> schema]]

\* helpers.create_dataframe: the table of the records, cast to the schema
\* the consumer holds now
Materialized(buffer, schema) ==
    [i \in 1..Len(buffer) |->
        [type |-> buffer[i].type, stream |-> buffer[i].stream,
         id |-> buffer[i].id, size |-> buffer[i].size, sch |-> buffer[i].sch,
         mat |-> schema]]

\* the body of helpers.concat_tables on the values of its arguments:
\* buffer is records.pop(current_stream_name), popped the records after it
ConcatBuffer(stream, tables, buffer, popped, schema) ==
    IF \/ ~Inferable(buffer)
       \/ \E i \in 1..Len(buffer) :
            ~Castable(ContentOf(buffer[i].sch), ContentOf(schema))
       \/ /\ stream \in DOMAIN tables
          /\ \E i \in 1..Len(tables[stream]) :
               ContentOf(tables[stream][i].mat) # ContentOf(schema)
    THEN [ok |-> FALSE, tables |-> tables, records |-> popped]
    ELSE [ok |-> TRUE,
          tables |-> DictSet(tables, stream,
                             IF stream \in DOMAIN tables
                             THEN tables[stream] \o Materialized(buffer, schema)
                             ELSE Materialized(buffer, schema)),
          records |-> popped]

\* helpers.concat_tables: the popped buffer becomes a table that is
\* assigned, or concatenated onto the accumulated table of the stream;
\* pa.concat_tables takes tables of one schema only
ConcatTables(stream, tables, recs, schema) ==
    CHOOSE out \in
        { ConcatBuffer(stream, a.tables, a.buffer, a.popped, a.schema) :
            a \in {[tables |-> tables, buffer |-> recs[stream],
                    popped |-> [recs EXCEPT ![stream] = <<>>],
                    schema |-> schema]} } : TRUE

\* what is written and uploaded by one flush
FileOf(stream, rows, cause) == [stream |-> stream, rows |-> rows, cause |-> cause]

\* helpers.write_file_to_hdfs: materialize the pending buffer, write the
\* accumulated table (KeyError when the stream has none), upload it, and
\* delete the table.  uploadOk is the outcome of upload_to_hdfs.
WriteFile(stream, tables, recs, schema, fls, uploadOk, cause) ==
    LET c == IF recs[stream] # <<>>
             THEN ConcatTables(stream, tables, recs, schema)
             ELSE [ok |-> TRUE, tables |-> tables, records |-> recs]
    IN  IF ~c.ok
        THEN [ok |-> FALSE, err |-> "ArrowInvalid", tables |-> c.tables,
              records |-> c.records, files |-> fls]
        ELSE IF stream \notin DOMAIN c.tables
        THEN [ok |-> FALSE, err |-> "KeyError", tables |-> c.tables,
              records |-> c.records, files |-> fls]
        ELSE IF ~uploadOk
        THEN [ok |-> FALSE, err |-> "UploadError", tables |-> c.tables,
              records |-> c.records, files |-> fls]
        ELSE [ok |-> TRUE, err |-> "none",
              tables |-> DictDel(c.tables, stream),
              records |-> c.records,
              files |-> Append(fls, FileOf(stream, c.tables[stream], cause))]

\* variant: the byte count is compared with the threshold in MB
SizeReachedNoConversion(nbytes, mb) == nbytes >= mb

\* bytes_to_mb(table.nbytes) >= file_size_mb
SizeReached(nbytes, mb) == nbytes >= mb * BytesPerMb

\* variant: a flush follows every materialization of the buffer
ThresholdDueWhenMaterialized(c, tables, counts, cur) == cur \in DOMAIN tables

\* the condition of the threshold flush, evaluated after each record
ThresholdDue(c, tables, counts, cur) ==
    \/ /\ c.file_size_mb # 0
       /\ cur \in DOMAIN tables
       /\ SizeReached(SumSizes(tables[cur]), c.file_size_mb)
       /\ c.file_size_mb > 0
    \/ /\ c.rows_per_file # 0
       /\ counts[cur] % c.rows_per_file = 0

\* variant: a change of stream is never detected
StreamChangedNever(stream, cur) == FALSE

\* stream_name != current_stream_name and current_stream_name is not None
StreamChanged(stream, cur) == stream # cur /\ cur # NoStream

\* variant: the buffer is drained by the flushes only
DrainDueNever(buffer) == FALSE

\* not len(records[current_stream_name]) % 1000
DrainDue(buffer) == Len(buffer) % DrainEvery = 0

Locals(p, e, cur, recs, counts, tables, schs, fls) ==
    [cpc |-> p, cerr |-> e, current_stream_name |-> cur, records |-> recs,
     records_count |-> counts, pyarrow_tables |-> tables,
     pyarrow_schemas |-> schs, files |-> fls]

\* the RECORD branch of the consumer loop
OnRecord(item, up1, up2) ==
    LET w1 == IF StreamChanged(item.stream, current_stream_name)
              THEN WriteFile(current_stream_name, pyarrow_tables, records,
                             SchemaOf(current_stream_name, pyarrow_schemas),
                             files, up1, "switch")
              ELSE [ok |-> TRUE, err |-> "none", tables |-> pyarrow_tables,
                    records |-> records, files |-> files]
        cur == item.stream
        recs2 == [w1.records EXCEPT ![cur] = Append(@, item)]
        counts2 == [records_count EXCEPT ![cur] = @ + 1]
        d == IF DrainDue(recs2[cur])
             THEN ConcatTables(cur, w1.tables, recs2,
                               SchemaOf(cur, pyarrow_schemas))
             ELSE [ok |-> TRUE, tables |-> w1.tables, records |-> recs2]
        due == ThresholdDue(config, d.tables, counts2, cur)
        w2 == IF due
              THEN WriteFile(cur, d.tables, d.records,
                             SchemaOf(cur, pyarrow_schemas), w1.files, up2,
                             "threshold")
              ELSE [ok |-> TRUE, err |-> "none", tables |-> d.tables,
                    records |-> d.records, files |-> w1.files]
    IN  IF ~w1.ok
        THEN Locals("crashed", w1.err, current_stream_name, w1.records,
                    records_count, w1.tables, pyarrow_schemas, w1.files)
        ELSE IF ~d.ok
        THEN Locals("crashed", "ArrowInvalid", cur, d.records, counts2,
                    d.tables, pyarrow_schemas, w1.files)
        ELSE IF ~w2.ok
        THEN Locals("crashed", w2.err, cur, w2.records, counts2, w2.tables,
                    pyarrow_schemas, w2.files)
        ELSE Locals("run", "none", cur, w2.records, counts2, w2.tables,
                    pyarrow_schemas, w2.files)

\* the SCHEMA branch: pyarrow_schemas[stream_name] = ...
OnSchema(item) ==
    Locals("run", "none", current_stream_name, records, records_count,
           pyarrow_tables, DictSet(pyarrow_schemas, item.stream, item.sch),
           files)

\* the EOF branch: the last flush, then more_messages = False.  The
\* argument pyarrow_schemas[current_stream_name] is evaluated first.
OnEOF(up1) ==
    IF current_stream_name \notin DOMAIN pyarrow_schemas
    THEN Locals("crashed", "KeyError", current_stream_name, records,
                records_count, pyarrow_tables, pyarrow_schemas, files)
    ELSE LET w == WriteFile(current_stream_name, pyarrow_tables, records,
                            pyarrow_schemas[current_stream_name], files, up1,
                            "eof")
         IN  Locals(IF w.ok THEN "done" ELSE "crashed", w.err,
                    current_stream_name, w.records, records_count, w.tables,
                    pyarrow_schemas, w.files)

\* one iteration of "while more_messages": receiver.get() and its branch
ConsumerGet(up1, up2) ==
    /\ cpc = "run"
    /\ queue # <<>>
    /\ \E item \in {QueueFront(queue)} :
       \E r \in {CASE item.type = "RECORD" -> OnRecord(item, up1, up2)
                  [] item.type = "SCHEMA" -> OnSchema(item)
                  [] item.type = "EOF" -> OnEOF(up1)} :
           /\ queue' = Tail(queue)
           /\ got_log' = Append(got_log, item)
           /\ cpc' = r.cpc
           /\ cerr' = r.cerr
           /\ current_stream_name' = r.current_stream_name
           /\ records' = r.records
           /\ records_count' = r.records_count
           /\ pyarrow_tables' = r.pyarrow_tables
           /\ pyarrow_schemas' = r.pyarrow_schemas
           /\ files' = r.files
    /\ UNCHANGED <<config, put_log>>
    /\ UNCHANGED pvars
    /\ UNCHANGED xvars

\* -------------------------------------------------------- specification
\* no store is attached and no append run is under way
StoreIdle ==
    /\ hdfs = <<>>
    /\ clock = 0
    /\ expected_schema = "none"
    /\ block_size_limit = 0
    /\ rpc = "off"
    /\ runs = 0
    /\ crashes = 0
    /\ result = "none"
    /\ table = {}
    /\ target = "none"
    /\ uploading = [name |-> "none", suffix |-> ""]
    /\ uploads = 0
    /\ original = {}

\* no record is being flattened
FlattenIdle ==
    /\ dictionary = [kind |-> "null", n |-> 0, text |-> "", fields |-> <<>>]
    /\ flat_schema = <<>>
    /\ items = <<>>
    /\ fpc = "off"

\* no field is being mapped
MapperIdle ==
    /\ input_types = [type |-> {}, anyOf |-> {}]
    /\ field = [err |-> "none", type |-> "none", nullable |-> FALSE]
    /\ mpc = "off"

\* no sink is constructed
SinkIdle ==
    /\ stream_name = NoStream
    /\ sync_started_at = 0
    /\ max_pyarrow_table_size = 0
    /\ pyarrow_df = [some |-> FALSE, rows |-> <<>>]
    /\ temp_output_path = <<>>
    /\ written = <<>>
    /\ received = 0
    /\ kpc = "off"

AuxIdle == StoreIdle /\ FlattenIdle /\ MapperIdle /\ SinkIdle

InitWith(C) ==
    /\ config \in C
    /\ read = <<>>
    /\ pc = "reading"
    /\ state = Absent
    /\ schemas = <<>>
    /\ err = NoErr
    /\ pending = NoItem
    /\ queue = <<>>
    /\ put_log = <<>>
    /\ got_log = <<>>
    /\ cpc = "run"
    /\ cerr = "none"
    /\ current_stream_name = NoStream
    /\ records = [s \in Streams |-> <<>>]
    /\ records_count = [s \in Streams |-> 0]
    /\ pyarrow_tables = <<>>
    /\ pyarrow_schemas = <<>>
    /\ files = <<>>
    /\ ret = Absent
    /\ stdout = <<>>

Init == InitWith(Configs) /\ AuxIdle

Producer == (\E msg \in AllMessages : ReadLine(msg, MaxInput)) \/ EndOfInput \/ ResumePut

Main == Join \/ MainEmit

Consumer == \E up1, up2 \in BOOLEAN : ConsumerGet(up1, up2)

Next == Producer \/ Main \/ Consumer

Spec == Init /\ [][Next]_vars

\* both processes are scheduled by the operating system: a step that stays
\* enabled is eventually taken
FairSpec ==
    Spec /\ WF_vars(Producer) /\ WF_vars(Main) /\ WF_vars(Consumer)

\* runs with a byte-size threshold and no row threshold, records of two sizes
BytesConfigs == { Cfg(0, 2, 0), Cfg(0, 2, 1) }

BytesMessages ==
    SchemaMsgs(Streams) \cup RecordMsgs(Streams, {HalfMb, BytesPerMb})

InitBytes == InitWith(BytesConfigs) /\ AuxIdle

ProducerBytes ==
    \/ \E msg \in BytesMessages : ReadLine(msg, MaxBytesInput)
    \/ EndOfInput
    \/ ResumePut

NextBytes == ProducerBytes \/ Main \/ Consumer

SpecBytes == InitBytes /\ [][NextBytes]_vars

\* ----------------------------------------------------------- properties
Indices(s) == 1..Len(s)

HasType(s, t) == \E i \in Indices(s) : s[i].type = t

\* persist_messages has returned to main
Returned == pc \in {"returned", "exit"}

\* the checkpoint an input calls for: the value of the last STATE message
\* unless a RECORD message follows it
CheckpointOf(in) ==
    LET S == {i \in Indices(in) : in[i].type = "STATE"} IN
    IF S = {} THEN Absent
    ELSE LET last == CHOOSE i \in S : \A j \in S : j <= i IN
         IF \E j \in Indices(in) : j > last /\ in[j].type = "RECORD"
         THEN Absent
         ELSE <<in[last].value>>

\* C1: the value persist_messages returns at normal end of input is the
\* value of the last STATE message when no RECORD was read after it, and
\* absent otherwise; SCHEMA and unknown messages do not change it.
C1_ReturnedCheckpoint == Returned => ret = CheckpointOf(read)

\* a returned checkpoint that survived a later SCHEMA or unknown message,
\* after an earlier record had reset the state
C1_Witness ==
    /\ pc = "returned"
    /\ ret # Absent
    /\ HasType(read, "RECORD")
    /\ Last(read).type \in {"SCHEMA", "UNKNOWN"}

\* line i is a RECORD whose stream has no earlier SCHEMA line
RecordBeforeSchema(in, i) ==
    /\ in[i].type = "RECORD"
    /\ ~\E j \in 1..(i - 1) :
            in[j].type = "SCHEMA" /\ in[j].stream = in[i].stream

\* C2: a RECORD for stream X read before any SCHEMA for X raises the
\* sequencing error naming X, and no RECORD work item is enqueued for it,
\* whatever schemas were seen for other streams.
C2_SequencingError ==
    \A i \in Indices(read) :
        RecordBeforeSchema(read, i) =>
            /\ i = Len(read)
            /\ err = [kind |-> "ValueError", stream |-> read[i].stream]
            /\ pc \in {"raised", "blocked"}
            /\ pending.type # "RECORD"
            /\ ~\E k \in Indices(put_log) :
                    put_log[k].type = "RECORD" /\ put_log[k].id = i

\* the error was raised although another stream had its schema
C2_Witness ==
    /\ pc = "raised"
    /\ err.kind = "ValueError"
    /\ \E j \in Indices(read) :
           read[j].type = "SCHEMA" /\ read[j].stream # err.stream

\* the lines handled without an exception
Accepted(in, e) == IF e = NoErr THEN in ELSE SubSeq(in, 1, Len(in) - 1)

\* the SCHEMA and RECORD lines of an input, as (type, stream, line number)
RECURSIVE WorkOfFrom(_, _)
WorkOfFrom(in, n) ==
    IF in = <<>> THEN <<>>
    ELSE (IF Head(in).type \in {"SCHEMA", "RECORD"}
          THEN << <<Head(in).type, Head(in).stream, n>> >>
          ELSE <<>>) \o WorkOfFrom(Tail(in), n + 1)

WorkOf(in) == WorkOfFrom(in, 1)

\* the SCHEMA and RECORD items the consumer has dequeued, in the same form
GotWork ==
    LET g == SelectType(got_log, {"SCHEMA", "RECORD"}) IN
    [i \in Indices(g) |-> <<g[i].type, g[i].stream, g[i].id>>]

\* C3: the SCHEMA and RECORD work items the consumer dequeues are the
\* SCHEMA and RECORD messages of the input in input order: at any time a
\* prefix of them, and all of the accepted ones once the sentinel is
\* dequeued.
C3_OrderPreserved ==
    /\ IsPrefix(GotWork, WorkOf(read))
    /\ HasType(got_log, "EOF") => GotWork = WorkOf(Accepted(read, err))

\* the whole of a two-stream input has been dequeued
C3_Witness ==
    /\ HasType(got_log, "EOF")
    /\ Len(GotWork) >= 3
    /\ \E i, j \in Indices(GotWork) :
           /\ GotWork[i][1] = "RECORD"
           /\ GotWork[j][1] = "RECORD"
           /\ GotWork[i][2] # GotWork[j][2]

\* the producer has left its loop, by return or by raise
ProducerFinished == pc \in {"joining", "returned", "exit", "raised"}

EOFCount(log) == Cardinality({i \in Indices(log) : log[i].type = "EOF"})

\* C4: on every producer path the producer enqueues exactly one EOF
\* sentinel, as its last item, and an exception is re-raised only after
\* the sentinel is enqueued.
C4_OneSentinelLast ==
    /\ EOFCount(put_log) <= 1
    /\ HasType(put_log, "EOF") => Last(put_log).type = "EOF" /\ pending = NoItem
    /\ ProducerFinished => EOFCount(put_log) = 1

\* an exception was re-raised after work items and the sentinel were put
C4_Witness ==
    /\ pc = "raised"
    /\ Len(put_log) >= 2
    /\ Last(put_log).type = "EOF"

\* the error the last line of an input calls for
ErrorOf(in) ==
    IF in = <<>> THEN NoErr
    ELSE LET m == Last(in) IN
         CASE m.type = "MALFORMED" -> [kind |-> "ParseError", stream |-> ""]
           [] m.type = "RECORD" /\ RecordBeforeSchema(in, Len(in)) ->
                [kind |-> "ValueError", stream |-> m.stream]
           [] m.type = "RECORD" /\ ~m.valid ->
                [kind |-> "ValidationError", stream |-> m.stream]
           [] OTHER -> NoErr

\* C8: when the producer hits a fatal error (malformed line, record before
\* schema, record failing validation) persist_messages raises that error
\* and never returns a state, and emit_state writes nothing, also when a
\* STATE message was read before the failing line.
C8_ProducerErrorNoCheckpoint ==
    /\ err = ErrorOf(read)
    /\ err # NoErr =>
          /\ pc \in {"blocked", "raised"}
          /\ pc = "blocked" => pending = EOFItem
          /\ ret = Absent
          /\ stdout = <<>>

\* the error was raised while the producer held a checkpoint
C8_Witness ==
    /\ pc = "raised"
    /\ state # Absent
    /\ stdout = <<>>

\* persist_messages has handed control back to its caller
HandedBack == Returned \/ pc = "raised"

\* the consumer process has ended, normally or by an exception
ConsumerEnded == cpc \in {"done", "crashed"}

\* C5: for every finite input and every queue capacity persist_messages
\* eventually returns or raises and the consumer eventually terminates,
\* also when the producer fails or a flush in the consumer fails.
\* (It fails where the consumer process has ended on an exception while
\* the producer waits in put on a full bounded queue: no get follows.)
C5_Terminates == <>(HandedBack /\ ConsumerEnded)

\* C6: persist_messages hands control back, by return or by raise, only
\* after the consumer has processed the EOF sentinel and terminated.
C6_HandBackAfterConsumer ==
    HandedBack => ConsumerEnded /\ HasType(got_log, "EOF")

\* C7: a flush that fails in the consumer is fatal to persist_messages: it
\* does not return normally and no checkpoint is returned or emitted.
C7_FlushFailureFatal ==
    cerr = "UploadError" => ~Returned /\ stdout = <<>>

\* the RECORD lines of the input read so far
RecordLines == SelectType(read, {"RECORD"})

\* the input read holds M * K accepted records (M >= 1), all of one stream,
\* K being rows_per_file, and no byte-size threshold is set
RowsRun ==
    /\ config.rows_per_file > 0
    /\ config.file_size_mb = 0
    /\ err = NoErr
    /\ RecordLines # <<>>
    /\ \A i \in Indices(RecordLines) : RecordLines[i].stream = RecordLines[1].stream
    /\ Len(RecordLines) % config.rows_per_file = 0

\* C9: with rows_per_file = K and no byte-size trigger, M * K records of
\* one stream yield exactly M files of exactly K rows each, and the
\* consumer completes the run without error (the store accepting every
\* upload).
C9_RowCountFiles ==
    (RowsRun /\ ConsumerEnded /\ cerr # "UploadError") =>
        /\ Len(files) * config.rows_per_file = Len(RecordLines)
        /\ \A i \in Indices(files) : Len(files[i].rows) = config.rows_per_file
        /\ cpc = "done"

\* the part of C9 about the files alone (it holds: the M files of K rows
\* are written before the consumer ends with the exception)
C9_FilesOnly ==
    (RowsRun /\ ConsumerEnded /\ cerr # "UploadError") =>
        /\ Len(files) * config.rows_per_file = Len(RecordLines)
        /\ \A i \in Indices(files) : Len(files[i].rows) = config.rows_per_file

\* the size of a file: the size of the table at the moment it was flushed
FileSize(f) == SumSizes(f.rows)

\* a byte-size threshold is set and no row threshold
BytesRun == config.file_size_mb > 0 /\ config.rows_per_file = 0

\* C10 as stated: with file_size_mb = B and no row threshold, every file
\* emitted except possibly the last one has a size of at least B MB.
C10_AllButLastFull ==
    BytesRun =>
        \A i \in 1..(Len(files) - 1) :
            FileSize(files[i]) >= config.file_size_mb * BytesPerMb

\* C10 amended: with file_size_mb = B and no row threshold, every file
\* emitted, except possibly the last one and the files flushed because the
\* stream changed, has a size of at least B MB.
C10_ThresholdFilesFull ==
    BytesRun =>
        \A i \in 1..(Len(files) - 1) :
            files[i].cause # "switch" =>
                FileSize(files[i]) >= config.file_size_mb * BytesPerMb

\* a file flushed by the byte-size threshold is followed by another file
C10_Witness ==
    /\ BytesRun
    /\ Len(files) >= 2
    /\ files[1].cause = "threshold"

\* the line numbers of the RECORD lines of an input, in input order
IsRecordWork(w) == w[1] = "RECORD"

RecordIds(in) ==
    LET w == SelectSeq(WorkOf(in), IsRecordWork) IN
    [i \in Indices(w) |-> w[i][3]]

\* the line numbers of the rows of a table or of a buffer
RowIds(rows) == [i \in Indices(rows) |-> rows[i].id]

\* the records the producer accepted, and whether they are of one stream
AcceptedRecords == SelectType(Accepted(read, err), {"RECORD"})

SingleStream(recs) == \A i \in Indices(recs) : recs[i].stream = recs[1].stream

\* neither rows_per_file nor file_size_mb is set
NoThresholdRun == config.rows_per_file = 0 /\ config.file_size_mb = 0

HeldIds(tables, recs, stream) ==
    (IF stream \in DOMAIN tables THEN RowIds(tables[stream]) ELSE <<>>)
        \o RowIds(recs[stream])

InSeq(x, s) == \E i \in Indices(s) : s[i] = x

\* the stream of the RECORD item dequeued last, if any
LastRecordStream(log) ==
    LET r == SelectType(log, {"RECORD"}) IN
    IF r = <<>> THEN NoStream ELSE Last(r).stream

\* the consumer takes a RECORD item from the queue in this step
GetsRecord ==
    /\ queue # <<>>
    /\ Head(queue).type = "RECORD"
    /\ got_log' = Append(got_log, Head(queue))

\* C12: when the consumer dequeues a RECORD whose stream differs from the
\* stream of the preceding RECORD, it flushes the previously current
\* stream, all its buffered and accumulated rows, before the new record is
\* appended to any buffer (or the flush raises and the record is never
\* appended); the first record of the run and a record of the same stream
\* trigger no such flush.
C12_SwitchFlushFirst ==
    [][ GetsRecord =>
          LET item == Head(queue)
              prev == LastRecordStream(got_log)
          IN  IF prev # NoStream /\ item.stream # prev
              THEN IF Len(files') > Len(files)
                   THEN LET f == files'[Len(files) + 1] IN
                        /\ f.stream = prev
                        /\ f.cause = "switch"
                        /\ RowIds(f.rows) = HeldIds(pyarrow_tables, records, prev)
                        /\ f.rows # <<>>
                        /\ ~InSeq(item.id, RowIds(f.rows))
                        /\ HeldIds(pyarrow_tables', records', prev) = <<>>
                   ELSE /\ cpc' = "crashed"
                        /\ ~InSeq(item.id,
                                  HeldIds(pyarrow_tables', records', item.stream))
              ELSE \A i \in (Len(files) + 1)..Len(files') :
                       files'[i].cause # "switch"
      ]_vars

\* a stream was flushed because a record of another stream arrived, and
\* that record is now buffered
C12_Witness ==
    /\ cpc = "run"
    /\ files # <<>>
    /\ Last(files).cause = "switch"
    /\ Last(files).stream # current_stream_name
    /\ records[current_stream_name] # <<>>

\* the consumer takes the EOF sentinel from the queue in this step
GetsEOF ==
    /\ queue # <<>>
    /\ Head(queue).type = "EOF"
    /\ got_log' = Append(got_log, Head(queue))

\* the rows the current stream holds when the sentinel arrives
RemainingIds ==
    LET cur == LastRecordStream(got_log) IN
    IF cur = NoStream THEN <<>> ELSE HeldIds(pyarrow_tables, records, cur)

\* C13: on the EOF sentinel the consumer flushes the current stream's
\* remaining rows exactly once when there are any, performs no write and
\* raises no error when there are none (no record was ever received, or the
\* last record already triggered a flush), and then terminates (the store
\* accepting the upload).
C13_EOFFlush ==
    [][ (GetsEOF /\ cerr' # "UploadError") =>
          /\ cpc' = "done"
          /\ IF RemainingIds # <<>>
             THEN /\ Len(files') = Len(files) + 1
                  /\ Last(files').cause = "eof"
                  /\ RowIds(Last(files').rows) = RemainingIds
             ELSE files' = files
      ]_vars

\* the SCHEMA and RECORD items the producer has put, as (type, stream, line)
PutWork ==
    LET g == SelectType(put_log, {"SCHEMA", "RECORD"}) IN
    [i \in Indices(g) |-> <<g[i].type, g[i].stream, g[i].id>>]

\* a line of the input read so far calls for a fatal error
Failed == \E n \in 1..Len(read) : ErrorOf(SubSeq(read, 1, n)) # NoErr

\* C33: after the producer hits a fatal error on an input line (malformed
\* line, record before schema, record failing validation), it enqueues no
\* work item for that line or for any later line: the items put are those
\* of the lines before it, no later line is read, and the only item put
\* afterwards is the EOF sentinel.
C33_NoWorkAfterError ==
    /\ [](Failed =>
            /\ ErrorOf(read) # NoErr
            /\ PutWork = WorkOf(SubSeq(read, 1, Len(read) - 1))
            /\ \A i \in 1..Len(put_log) : put_log[i].type = "EOF" => i = Len(put_log))
    /\ [][Failed =>
            /\ read' = read
            /\ put_log' # put_log => put_log' = Append(put_log, EOFItem)]_vars

\* the producer failed on a line after it had put a SCHEMA and a RECORD,
\* and the sentinel is the last item it put
C33_Witness ==
    /\ Failed
    /\ pc = "raised"
    /\ HasType(put_log, "RECORD")
    /\ Len(put_log) = Len(read)
    /\ Last(put_log) = EOFItem

StoreNames == {"f1", "f2", "f3"}
Suffixes == {"", "_new", "_old"}
Paths == [name : StoreNames, suffix : Suffixes]
PathOf(n, x) == [name |-> n, suffix |-> x]
NoPath == PathOf("none", "")

\* dfs.blocksize, in the unit of the object sizes
BlockSize == 4
\* at most this many append runs and helpers.upload_to_hdfs calls
MaxRuns == 2
MaxUploads == 1
\* the share of the block size, in percent
BlockPercent == 85

PhysicalSchemas == {"col1,col2,col3", "col1,col2"}
\* the configured limits a caller can pass: none, or two size units
SizeLimits == {0, 2}

\* a remote object; partial: the copy that writes it has not finished
Object(r, sch, t, part) ==
    [rows |-> r, schema |-> sch, mtime |-> t, partial |-> part]

\* FileInfo.size: one unit per row
SizeOf(o) == Cardinality(o.rows)

\* FileInfo.extension: the text after the last dot of the base name
Extension(p) ==
    CASE p.suffix = "" -> "parquet"
      [] p.suffix = "_new" -> "parquet_new"
      [] p.suffix = "_old" -> "parquet_old"

\* file.base_name.endswith(extension)
BaseNameEndsWith(p, extension) ==
    CASE extension = ".parquet" -> p.suffix = ""
      [] extension = ".parquet_old" -> p.suffix = "_old"

\* get_files
GetFiles(store, extension) ==
    {p \in DOMAIN store : BaseNameEndsWith(p, extension)}

\* variant: the file modified first is taken
MinByMtime(store, fs) ==
    CHOOSE p \in fs : \A q \in fs : store[p].mtime <= store[q].mtime

\* max(files, key=lambda file: file.mtime)
MaxByMtime(store, fs) ==
    CHOOSE p \in fs : \A q \in fs : store[q].mtime <= store[p].mtime

\* variant: the sentinel is not looked for
GetMostRecentFileIgnoringOld(store) ==
    LET fs == GetFiles(store, ".parquet")
    IN  IF fs # {} THEN [err |-> NoErr, path |-> MaxByMtime(store, fs)]
        ELSE [err |-> NoErr, path |-> NoPath]

\* get_most_recent_file: the sentinel when there is one, else the newest
\* .parquet file, else None; more than one sentinel fails the assertion
GetMostRecentFile(store) ==
    LET old == GetFiles(store, ".parquet_old")
        fs == GetFiles(store, ".parquet")
    IN  IF Cardinality(old) > 1 THEN [err |-> "AssertionError", path |-> NoPath]
        ELSE IF old # {} THEN [err |-> NoErr, path |-> CHOOSE p \in old : TRUE]
        ELSE IF fs # {} THEN [err |-> NoErr, path |-> MaxByMtime(store, fs)]
        ELSE [err |-> NoErr, path |-> NoPath]

\* hdfs_client.move
Move(store, from, to) == DictSet(DictDel(store, from), to, store[from])

\* variant: the candidate is removed and no sentinel is left
SetFileAsOldLosing(store, p) ==
    DictDel(store, p)

\* set_file_as_old
SetFileAsOld(store, p) ==
    IF p.suffix # "_old" THEN Move(store, p, PathOf(p.name, "_old")) ELSE store

\* most_recent_file.size >= get_hdfs_block_size() * 0.85
TooLarge(o) == SizeOf(o) * 100 >= BlockSize * BlockPercent

\* variant: the candidate is set as old before it is downloaded and read
ReadMostRecentFileRenamingFirst(store, downloadOk) ==
    LET c == GetMostRecentFile(store) IN
    IF c.err # NoErr
    THEN [result |-> c.err, content |-> {}, store |-> store]
    ELSE IF c.path = NoPath \/ TooLarge(store[c.path])
    THEN [result |-> "None", content |-> {}, store |-> store]
    ELSE IF ~downloadOk
    THEN [result |-> "DownloadError", content |-> {},
          store |-> SetFileAsOld(store, c.path)]
    ELSE IF store[c.path].partial
    THEN [result |-> "ReadError", content |-> {},
          store |-> SetFileAsOld(store, c.path)]
    ELSE [result |-> "content", content |-> store[c.path].rows,
          store |-> SetFileAsOld(store, c.path)]

\* read_most_recent_file(hdfs_file_path): the function takes the path only;
\* downloadOk is the outcome of download_from_hdfs
ReadMostRecentFile(store, downloadOk) ==
    LET c == GetMostRecentFile(store) IN
    IF c.err # NoErr
    THEN [result |-> c.err, content |-> {}, store |-> store]
    ELSE IF c.path = NoPath
            \/ (TooLarge(store[c.path]) /\ Extension(c.path) # ".parquet_old")
    THEN [result |-> "None", content |-> {}, store |-> store]
    ELSE IF ~downloadOk
    THEN \* pa.fs.copy_files raises
         [result |-> "DownloadError", content |-> {}, store |-> store]
    ELSE IF store[c.path].partial
    THEN \* pa.parquet.read_table fails on a file without its footer
         [result |-> "ReadError", content |-> {}, store |-> store]
    ELSE [result |-> "content", content |-> store[c.path].rows,
          store |-> IF Extension(c.path) # ".parquet_old"
                    THEN SetFileAsOld(store, c.path) ELSE store]

\* new_file_path.replace("_new", "")
WithoutNew(p) == PathOf(p.name, IF p.suffix = "_new" THEN "" ELSE p.suffix)

\* replace_old_file_with_new_file
ReplaceOldFileWithNewFile(store, p) == Move(store, p, WithoutNew(p))

\* delete_old_files
DeleteOldFiles(store) ==
    [p \in DOMAIN store \ GetFiles(store, ".parquet_old") |-> store[p]]

\* the staged object of a publish: <final-path>_new
StagedPath(n) == PathOf(n, "_new")

\* the row an append run adds to what it read back
NewRow(k) == 10 + k

\* an append run starts: it resolves the append target and loads it
StartRun(downloadOk) ==
    /\ rpc = "idle"
    /\ runs < MaxRuns
    /\ runs' = runs + 1
    /\ LET r == ReadMostRecentFile(hdfs, downloadOk) IN
        /\ result' = r.result
        /\ hdfs' = r.store
        /\ IF r.result \in {"None", "content"}
           THEN /\ table' = r.content \cup {NewRow(runs')}
                /\ rpc' = "loaded"
                /\ UNCHANGED crashes
           ELSE /\ table' = {}
                /\ rpc' = "idle"
                /\ crashes' = crashes + 1
    /\ UNCHANGED <<clock, expected_schema, block_size_limit, target,
                   uploading, uploads, original>>
    /\ UNCHANGED <<vars_pipeline, fvars, mvars, kvars>>

\* upload_to_hdfs, pa.fs.copy_files begins: the destination exists, unfinished
UploadCopy ==
    /\ rpc = "loaded"
    /\ \E n \in StoreNames :
        /\ PathOf(n, "") \notin DOMAIN hdfs
        /\ PathOf(n, "") # uploading
        /\ target' = n
        /\ hdfs' = DictSet(hdfs, StagedPath(n), Object(table, expected_schema, clock + 1, TRUE))
    /\ clock' = clock + 1
    /\ rpc' = "copying"
    /\ UNCHANGED <<expected_schema, block_size_limit, runs, crashes, result,
                   table, uploading, uploads, original>>
    /\ UNCHANGED <<vars_pipeline, fvars, mvars, kvars>>

\* upload_to_hdfs, pa.fs.copy_files returns
UploadCopied ==
    /\ rpc = "copying"
    /\ hdfs' = [hdfs EXCEPT ![StagedPath(target)].partial = FALSE]
    /\ rpc' = "copied"
    /\ UNCHANGED <<clock, expected_schema, block_size_limit, runs, crashes,
                   result, table, target, uploading, uploads, original>>
    /\ UNCHANGED <<vars_pipeline, fvars, mvars, kvars>>

\* upload_to_hdfs, replace_old_file_with_new_file
UploadMove ==
    /\ rpc = "copied"
    /\ hdfs' = ReplaceOldFileWithNewFile(hdfs, StagedPath(target))
    /\ rpc' = "published"
    /\ UNCHANGED <<clock, expected_schema, block_size_limit, runs, crashes,
                   result, table, target, uploading, uploads, original>>
    /\ UNCHANGED <<vars_pipeline, fvars, mvars, kvars>>

\* after the publish the run deletes the sentinel and ends
DeleteOld ==
    /\ rpc = "published"
    /\ hdfs' = DeleteOldFiles(hdfs)
    /\ rpc' = "idle"
    /\ table' = {}
    /\ UNCHANGED <<clock, expected_schema, block_size_limit, runs, crashes,
                   result, target, uploading, uploads, original>>
    /\ UNCHANGED <<vars_pipeline, fvars, mvars, kvars>>

\* the run dies where it is (process killed, store error): its table is
\* gone, the store stays as it is
Crash ==
    /\ rpc \in {"loaded", "copying", "copied", "published"}
    /\ rpc' = "idle"
    /\ table' = {}
    /\ crashes' = crashes + 1
    /\ UNCHANGED <<hdfs, clock, expected_schema, block_size_limit, runs,
                   result, target, uploading, uploads, original>>
    /\ UNCHANGED <<vars_pipeline, fvars, mvars, kvars>>

\* helpers.upload_to_hdfs, pa.fs.copy_files begins: it copies to the path
\* write_file_to_hdfs built, <stream><sep><timestamp><ext>.parquet
HelpersUpload ==
    /\ rpc # "off"
    /\ uploading = NoPath
    /\ uploads < MaxUploads
    /\ uploads' = uploads + 1
    /\ \E n \in StoreNames :
        /\ \A x \in Suffixes : PathOf(n, x) \notin DOMAIN hdfs
        /\ rpc \in {"copying", "copied"} => n # target
        /\ uploading' = PathOf(n, "")
        /\ hdfs' = DictSet(hdfs, PathOf(n, ""), Object({NewRow(0)}, expected_schema, clock + 1, TRUE))
    /\ clock' = clock + 1
    /\ UNCHANGED <<expected_schema, block_size_limit, rpc, runs, crashes,
                   result, table, target, original>>
    /\ UNCHANGED <<vars_pipeline, fvars, mvars, kvars>>

\* helpers.upload_to_hdfs, pa.fs.copy_files returns (ok) or fails midway
HelpersUploadEnds(ok) ==
    /\ uploading # NoPath
    /\ uploading' = NoPath
    /\ hdfs' = IF ok THEN [hdfs EXCEPT ![uploading].partial = FALSE] ELSE hdfs
    /\ UNCHANGED <<clock, expected_schema, block_size_limit, rpc, runs,
                   crashes, result, table, target, uploads, original>>
    /\ UNCHANGED <<vars_pipeline, fvars, mvars, kvars>>

\* the objects a stream directory can hold before a run
InitialRows == {{1}, {1, 2}, {1, 2, 3, 4}}

InitStore ==
    /\ InitWith({Cfg(0, 0, 0)})
    /\ SinkIdle
    /\ FlattenIdle
    /\ MapperIdle
    /\ \E f \in SUBSET {"f1"}, r \in InitialRows, sch \in PhysicalSchemas :
        /\ hdfs = [p \in {PathOf(n, "") : n \in f} |-> Object(r, sch, 0, FALSE)]
        /\ original = IF f = {} THEN {} ELSE r
    /\ clock = 0
    /\ expected_schema \in PhysicalSchemas
    /\ block_size_limit \in SizeLimits
    /\ rpc = "idle"
    /\ runs = 0
    /\ crashes = 0
    /\ result = "none"
    /\ table = {}
    /\ target = "none"
    /\ uploading = NoPath
    /\ uploads = 0

NextStore ==
    \/ \E downloadOk \in BOOLEAN : StartRun(downloadOk)
    \/ UploadCopy
    \/ UploadCopied
    \/ UploadMove
    \/ DeleteOld
    \/ Crash
    \/ HelpersUpload
    \/ \E ok \in BOOLEAN : HelpersUploadEnds(ok)

SpecStore == InitStore /\ [][NextStore]_vars

\* ------------------------------------------- properties of the remote store
\* this step is a call of read_most_recent_file
Calls == runs' = runs + 1

\* a call of read_most_recent_file the store serves the download of
Resolves == Calls /\ result' # "DownloadError"

\* the append candidate of the store, NoPath when there is none
Candidate == GetMostRecentFile(hdfs).path

\* the candidate is a whole file the resolver will not turn down for its size
Eligible ==
    /\ Candidate # NoPath
    /\ ~hdfs[Candidate].partial
    /\ ~TooLarge(hdfs[Candidate])

\* C14: read_most_recent_file raises SchemaChangedError, returns no content
\* and renames or writes no remote object when the append candidate's stored
\* physical schema differs from the schema the caller expects.
C14_SchemaDriftRejected ==
    [][ (Resolves /\ Eligible /\ hdfs[Candidate].schema # expected_schema) =>
          /\ result' = "SchemaChangedError"
          /\ table' = {}
          /\ hdfs' = hdfs
      ]_vars

\* the size limit of the resolver: the configured one when given, else 0.85
\* of the block size; AtLimit(o): the object's size is at or above it
AtLimit(o) ==
    IF block_size_limit # 0 THEN SizeOf(o) >= block_size_limit ELSE TooLarge(o)

\* C15: read_most_recent_file returns None when no candidate exists or when
\* the candidate's size is at or above the size limit (the configured limit
\* when one is given, else 0.85 of the block size), and returns the content
\* of a candidate below the limit (a whole candidate of the expected schema).
C15_SizeLimit ==
    [][ (/\ Resolves
         /\ Candidate # NoPath =>
              /\ ~hdfs[Candidate].partial
              /\ hdfs[Candidate].schema = expected_schema) =>
          IF Candidate = NoPath \/ AtLimit(hdfs[Candidate])
          THEN result' = "None" /\ hdfs' = hdfs
          ELSE result' = "content" /\ hdfs[Candidate].rows \subseteq table'
      ]_vars

\* a final path: the name a reader of the directory lists
IsFinal(p) == p.suffix = ""

\* C16: every publish writes the file to a staged object first, whose path
\* differs from the final path, and only then moves it to the final path; in
\* no reachable state of the store does a final path hold a partly written
\* object.
C16_StagedPublish ==
    /\ [](\A p \in DOMAIN hdfs : IsFinal(p) => ~hdfs[p].partial)
    /\ [][ \A p \in DOMAIN hdfs' \ DOMAIN hdfs :
             IsFinal(p) =>
               /\ StagedPath(p.name) \in DOMAIN hdfs
               /\ hdfs'[p] = hdfs[StagedPath(p.name)]
               /\ StagedPath(p.name) \notin DOMAIN hdfs'
         ]_vars

\* the rows of the whole objects at the sentinel or at a final path
KeptRows ==
    UNION {hdfs[p].rows : p \in {q \in DOMAIN hdfs :
                                   q.suffix \in {"", "_old"} /\ ~hdfs[q].partial}}

Sentinels == GetFiles(hdfs, ".parquet_old")

\* C17: in the append protocol a crash at any step loses no row: in every
\* reachable state of the store every row of the original candidate is in
\* the sentinel or in a published file, and a run that starts while a
\* sentinel exists reads the sentinel back and leaves it in place.
C17_NoRowLost ==
    /\ [](original \subseteq KeptRows)
    /\ [][ (Resolves /\ Sentinels # {}) =>
             /\ result' = "content"
             /\ \A p \in Sentinels : hdfs[p].rows \subseteq table'
             /\ \A p \in Sentinels : p \in DOMAIN hdfs' /\ hdfs'[p] = hdfs[p]
         ]_vars

\* a run crashed after it renamed the candidate, a later run read the
\* sentinel back, published it with its own row and deleted the sentinel
C17_Witness ==
    /\ crashes >= 1
    /\ runs = 2
    /\ rpc = "idle"
    /\ original # {}
    /\ Sentinels = {}
    /\ \E p \in DOMAIN hdfs :
        /\ IsFinal(p)
        /\ ~hdfs[p].partial
        /\ original \cup {NewRow(2)} \subseteq hdfs[p].rows
        /\ NewRow(1) \notin hdfs[p].rows

\* the paths of the store that end in ".parquet_old", and in ".parquet"
OldPaths == {p \in DOMAIN hdfs : p.suffix = "_old"}
FinalPaths == {p \in DOMAIN hdfs : p.suffix = ""}

\* C29: in every store state reachable through read_most_recent_file,
\* set_file_as_old, upload_to_hdfs and delete_old_files, crashes between the
\* steps and re-runs included, the path get_most_recent_file searches holds
\* at most one ".parquet_old" file, so its assertion never fails.
C29_OneSentinel ==
    /\ Cardinality(OldPaths) <= 1
    /\ result # "AssertionError"
    /\ GetMostRecentFile(hdfs).err = NoErr

\* a run crashed after its publish and before it deleted the sentinel; the
\* next run read the sentinel back while a newer published file was there
C29_Witness ==
    /\ crashes >= 1
    /\ runs = 2
    /\ rpc = "loaded"
    /\ result = "content"
    /\ Cardinality(OldPaths) = 1
    /\ \E p \in FinalPaths, q \in OldPaths :
          ~hdfs[p].partial /\ hdfs[p].mtime > hdfs[q].mtime /\ ~TooLarge(hdfs[p])

\* C30: get_most_recent_file returns the ".parquet_old" sentinel when one
\* exists; otherwise the ".parquet" file with the greatest modification time
\* among the files of the directory, and nothing when the directory is
\* missing or holds no such file.  A run that reads content without a
\* sentinel renames exactly that newest file.
C30_MostRecentFile ==
    /\ [](LET c == GetMostRecentFile(hdfs) IN
          Cardinality(OldPaths) <= 1 =>
            /\ c.err = NoErr
            /\ OldPaths # {} => c.path \in OldPaths
            /\ (OldPaths = {} /\ FinalPaths # {}) =>
                  /\ c.path \in FinalPaths
                  /\ \A q \in FinalPaths : hdfs[q].mtime <= hdfs[c.path].mtime
            /\ (OldPaths = {} /\ FinalPaths = {}) => c.path = NoPath)
    /\ [][(Resolves /\ OldPaths = {} /\ result' = "content") =>
            \E p \in FinalPaths :
               /\ \A q \in FinalPaths : hdfs[q].mtime <= hdfs[p].mtime
               /\ PathOf(p.name, "_old") \in DOMAIN hdfs'
               /\ hdfs'[PathOf(p.name, "_old")] = hdfs[p]
               /\ hdfs[p].rows \subseteq table']_vars

\* a run read the newer of two ".parquet" files and renamed it: the
\* sentinel is newer than the file left at its final path
C30_Witness ==
    /\ result = "content"
    /\ runs = 1
    /\ crashes = 0
    /\ \E q \in OldPaths, p \in FinalPaths :
          ~hdfs[p].partial /\ hdfs[p].mtime < hdfs[q].mtime

\* C31: read_most_recent_file renames an accepted candidate to its "_old"
\* sentinel name only after both the download and the read of the candidate
\* have succeeded; when the download or the read fails, no remote object has
\* been renamed, written or deleted.
C31_RenameAfterRead ==
    [][Calls =>
         /\ result' \in {"DownloadError", "ReadError"} => hdfs' = hdfs
         /\ hdfs' # hdfs =>
              /\ result' = "content"
              /\ \E p \in FinalPaths :
                   /\ ~hdfs[p].partial
                   /\ hdfs[p].rows \subseteq table'
                   /\ hdfs' = [q \in (DOMAIN hdfs \ {p}) \cup {PathOf(p.name, "_old")} |->
                                 IF q = PathOf(p.name, "_old") THEN hdfs[p] ELSE hdfs[q]]]_vars

\* the download of an accepted candidate failed in the first run: the
\* candidate is at its final path and there is no sentinel
C31_Witness ==
    /\ result = "DownloadError"
    /\ runs = 1
    /\ crashes = 1
    /\ OldPaths = {}
    /\ \E p \in FinalPaths : ~hdfs[p].partial /\ ~TooLarge(hdfs[p])

\* a store an earlier process left behind: a sentinel of any size (the block
\* size is read from the cluster configuration by each process), with or
\* without a published file next to it
InitSentinel ==
    /\ InitWith({Cfg(0, 0, 0)})
    /\ SinkIdle
    /\ FlattenIdle
    /\ MapperIdle
    /\ \E f \in SUBSET {"f2"}, r \in InitialRows, sch \in PhysicalSchemas :
        /\ hdfs = [p \in {PathOf("f1", "_old")} \cup {PathOf(n, "") : n \in f} |->
                     IF p.suffix = "_old" THEN Object(r, sch, 1, FALSE)
                     ELSE Object({NewRow(0)}, sch, 0, FALSE)]
        /\ original = r
    /\ clock = 1
    /\ expected_schema \in PhysicalSchemas
    /\ block_size_limit \in SizeLimits
    /\ rpc = "idle"
    /\ runs = 0
    /\ crashes = 0
    /\ result = "none"
    /\ table = {}
    /\ target = "none"
    /\ uploading = NoPath
    /\ uploads = 0

SpecSentinel == InitSentinel /\ [][NextStore]_vars

\* C32: a candidate that is already a ".parquet_old" sentinel is always
\* accepted by read_most_recent_file, whatever its size relative to the
\* block-size limit, and is not renamed again: its path is unchanged after
\* the call.
C32_SentinelAccepted ==
    [][(Resolves /\ OldPaths # {}) =>
         /\ result' = "content"
         /\ \A p \in OldPaths : hdfs[p].rows \subseteq table'
         /\ hdfs' = hdfs]_vars

\* C38: after a crash at any point between the publication of the new file
\* (which contains the sentinel's rows) and the deletion of the "_old"
\* sentinel, a re-run does not write the sentinel's rows a second time: no
\* row of the original candidate ends up in more than one published
\* (non-sentinel) file.
C38_NoRowTwice ==
    \A row \in original :
        Cardinality({p \in FinalPaths : row \in hdfs[p].rows}) <= 1

\* --------------------------------------------- a stream that changes schema
\* at most this many input lines in the runs where a schema is declared anew
MaxSchemaInput == 4

\* the declared schema of a SCHEMA line is its value: 1 is {"a": integer},
\* 2 is {"a": string}; a record is valid against the schema in force
VersionedSchemaMsgs(S) == {Msg("SCHEMA", s, v, TRUE, 0) : s \in S, v \in {1, 2}}

SchemaChangeMessages ==
    VersionedSchemaMsgs(Streams) \cup RecordMsgs(Streams, {HalfMb})

SchemaChangeConfigs == { Cfg(0, 0, 1), Cfg(3, 0, 0) }

InitSchemas == InitWith(SchemaChangeConfigs) /\ AuxIdle

ProducerSchemas ==
    \/ \E msg \in SchemaChangeMessages : ReadLine(msg, MaxSchemaInput)
    \/ EndOfInput
    \/ ResumePut

NextSchemas == ProducerSchemas \/ Main \/ Consumer

SpecSchemas == InitSchemas /\ [][NextSchemas]_vars

\* every row of the table is materialized with one schema content, the one
\* its record was flattened against
OneSchema(rows) ==
    \A i \in 1..Len(rows) :
        /\ ContentOf(rows[i].mat) = ContentOf(rows[i].sch)
        /\ ContentOf(rows[i].mat) = ContentOf(rows[1].mat)

\* C18: all rows of one output file share one physical schema: a SCHEMA
\* message that arrives while the stream holds rows that were not flushed
\* does not change the schema of the file holding those rows, and each
\* buffered record is materialized with the schema it was flattened against.
C18_OneSchemaPerFile ==
    /\ \A i \in 1..Len(files) : OneSchema(files[i].rows)
    /\ \A s \in DOMAIN pyarrow_tables : OneSchema(pyarrow_tables[s])

\* -------------------------------------------------------- helpers.flatten
\* at most this many keys in the raw record
MaxKeys == 2

\* JSON values: kind, the number of an integer or a boolean, the text of a
\* string, the items of a dict in their order as key-value pairs, the
\* elements of a list in their order as pairs with an empty key
NullValue == [kind |-> "null", n |-> 0, text |-> "", fields |-> <<>>]
IntValue(k) == [kind |-> "int", n |-> k, text |-> "", fields |-> <<>>]
BoolValue(b) == [kind |-> "bool", n |-> IF b THEN 1 ELSE 0, text |-> "", fields |-> <<>>]
StringValue(t) == [kind |-> "string", n |-> 0, text |-> t, fields |-> <<>>]
DictValue(ps) == [kind |-> "dict", n |-> 0, text |-> "", fields |-> ps]
ListOf(elems) ==
    [kind |-> "list", n |-> 0, text |-> "",
     fields |-> [i \in 1..Len(elems) |-> [key |-> "", value |-> elems[i]]]]

\* repr(value), the text str() gives for each element of a list: strings in
\* single quotes, True, False and None
RECURSIVE Repr(_)
RECURSIVE ReprItems(_, _)
ReprItems(ps, withKeys) ==
    IF ps = <<>> THEN ""
    ELSE (IF withKeys THEN "'" \o Head(ps).key \o "': " ELSE "")
         \o Repr(Head(ps).value)
         \o (IF Tail(ps) = <<>> THEN "" ELSE ", " \o ReprItems(Tail(ps), withKeys))

Repr(v) ==
    CASE v.kind = "null" -> "None"
      [] v.kind = "int" -> ToString(v.n)
      [] v.kind = "bool" -> IF v.n = 1 THEN "True" ELSE "False"
      [] v.kind \in {"string", "str"} -> "'" \o v.text \o "'"
      [] v.kind = "list" -> "[" \o ReprItems(v.fields, FALSE) \o "]"
      [] v.kind = "dict" -> "{" \o ReprItems(v.fields, TRUE) \o "}"

\* str(value) of a list
StrValue(v) == [kind |-> "str", n |-> 0, text |-> Repr(v), fields |-> <<>>]

\* the dicts of at most n items with keys in K and values in V
PairsOver(K, V, n) ==
    {ps \in UNION {[1..m -> [key : K, value : V]] : m \in 0..n} :
        \A i, j \in 1..Len(ps) : i # j => ps[i].key # ps[j].key}

RecordKeys == {"a", "b", "a__b"}
SchemaKeys == {"a", "b", "a__a", "a__b"}
\* the lists of the records: [1, 2] and ["a", true, null, [1]]
ListValues ==
    {ListOf(<<IntValue(1), IntValue(2)>>),
     ListOf(<<StringValue("a"), BoolValue(TRUE), NullValue, ListOf(<<IntValue(1)>>)>>)}
LeafValues == {NullValue, IntValue(1)} \cup ListValues
\* nested objects: empty, or one key
InnerDicts == {DictValue(ps) : ps \in PairsOver({"a", "b"}, LeafValues, 1)}

\* the raw records: None, or a dict of scalars, nulls, lists and objects
RawRecords ==
    {NullValue} \cup
    {DictValue(ps) : ps \in PairsOver(RecordKeys, LeafValues \cup InnerDicts, MaxKeys)}

\* the flattened schemas: flat key -> declared types
FlatSchemas == {[k \in K |-> "types"] : K \in SUBSET SchemaKeys}

\* items.update(other)
Update(d, other) ==
    [k \in DOMAIN d \cup DOMAIN other |-> IF k \in DOMAIN other THEN other[k] ELSE d[k]]

\* variant: the result is never seeded with the keys of the schema
SeedNothing(schema, parent_key) == <<>>

\* items = {} if parent_key else flat_schema.fromkeys(flat_schema.keys(), None)
Seed(schema, parent_key) ==
    IF parent_key # "" THEN <<>> ELSE [k \in DOMAIN schema |-> NullValue]

\* new_key = parent_key + sep + key if parent_key else key
NewKey(parent_key, key) ==
    IF parent_key # "" THEN parent_key \o "__" \o key ELSE key

\* the for loop of flatten over dictionary.items(), from the dict acc
RECURSIVE FlattenItems(_, _, _, _)
FlattenItems(ps, schema, parent_key, acc) ==
    IF ps = <<>> THEN acc
    ELSE LET key == Head(ps).key
             value == Head(ps).value
             new_key == NewKey(parent_key, key)
             next ==
                IF value.kind = "dict"
                THEN Update(acc, FlattenItems(value.fields, schema, new_key,
                                              Seed(schema, new_key)))
                ELSE IF new_key \in DOMAIN schema
                THEN DictSet(acc, new_key,
                             IF value.kind = "list" THEN StrValue(value) ELSE value)
                ELSE acc
         IN  FlattenItems(Tail(ps), schema, parent_key, next)

\* helpers.flatten(dictionary, flat_schema, parent_key): "if dictionary" is
\* false for None and for the empty dict
Flatten(d, schema, parent_key) ==
    FlattenItems(d.fields, schema, parent_key, Seed(schema, parent_key))

\* flattened_record = flatten(message['record'], schemas[stream_name])
FlattenRecord ==
    /\ fpc = "ready"
    /\ items' = Flatten(dictionary, flat_schema, "")
    /\ fpc' = "done"
    /\ UNCHANGED <<dictionary, flat_schema>>
    /\ UNCHANGED <<vars_pipeline, svars, mvars, kvars>>

InitFlatten ==
    /\ InitWith({Cfg(0, 0, 0)})
    /\ SinkIdle
    /\ StoreIdle
    /\ MapperIdle
    /\ dictionary \in RawRecords
    /\ flat_schema \in FlatSchemas
    /\ items = <<>>
    /\ fpc = "ready"

NextFlatten == FlattenRecord

SpecFlatten == InitFlatten /\ [][NextFlatten]_vars

\* C19: for every raw record r (any nesting, missing keys, null objects,
\* extra keys) and every flattened schema S, the key set of flatten(r, S) is
\* exactly the key set of S; a key of S the record gives no value for is
\* null, and no value of the result is an object.
C19_FlattenKeys ==
    fpc = "done" =>
        /\ DOMAIN items = DOMAIN flat_schema
        /\ \A k \in DOMAIN items : items[k].kind # "dict"
        /\ dictionary.fields = <<>> => \A k \in DOMAIN items : items[k] = NullValue

\* a record with a nested object was flattened: one key of it is outside the
\* schema, one key of the schema is missing in it and one nested key is set
C19_Witness ==
    /\ fpc = "done"
    /\ \E i \in 1..Len(dictionary.fields) :
        /\ dictionary.fields[i].value.kind = "dict"
        /\ dictionary.fields[i].value.fields # <<>>
    /\ \E i \in 1..Len(dictionary.fields) :
        /\ dictionary.fields[i].value.kind # "dict"
        /\ dictionary.fields[i].key \notin DOMAIN flat_schema
    /\ "a__a" \in DOMAIN items /\ items["a__a"] = IntValue(1)
    /\ "b" \in DOMAIN items /\ items["b"] = NullValue

\* the JSON text of a value: strings in double quotes, true, false and null,
\* numbers unquoted, nested lists and objects kept
RECURSIVE JsonText(_)
RECURSIVE JsonItems(_, _)
JsonItems(ps, withKeys) ==
    IF ps = <<>> THEN ""
    ELSE (IF withKeys THEN "\"" \o Head(ps).key \o "\": " ELSE "")
         \o JsonText(Head(ps).value)
         \o (IF Tail(ps) = <<>> THEN "" ELSE ", " \o JsonItems(Tail(ps), withKeys))

JsonText(v) ==
    CASE v.kind = "null" -> "null"
      [] v.kind = "int" -> ToString(v.n)
      [] v.kind = "bool" -> IF v.n = 1 THEN "true" ELSE "false"
      [] v.kind \in {"string", "str"} -> "\"" \o v.text \o "\""
      [] v.kind = "list" -> "[" \o JsonItems(v.fields, FALSE) \o "]"
      [] v.kind = "dict" -> "{" \o JsonItems(v.fields, TRUE) \o "}"

\* the lists a record holds, at the top or inside a nested object
RECURSIVE ListsIn(_)
ListsIn(v) ==
    IF v.kind # "dict" THEN {}
    ELSE {v.fields[i].value : i \in {j \in 1..Len(v.fields) : v.fields[j].value.kind = "list"}}
         \cup UNION {ListsIn(v.fields[i].value) : i \in 1..Len(v.fields)}

\* C22: when a record value at a schema key is a list, flatten stores its
\* JSON text (strings in double quotes, true/false/null, numbers unquoted,
\* nested lists kept), not the native repr with single quotes and
\* True/False/None: every text flatten stored is the JSON text of a list of
\* the record.
C22_ListAsJson ==
    fpc = "done" =>
        \A k \in DOMAIN items :
            items[k].kind = "str" =>
                items[k].text \in {JsonText(l) : l \in ListsIn(dictionary)}

\* -------------------------------------------------- helpers.flatten_schema
\* key in value
HasKey(d, key) == \E i \in 1..Len(d.fields) : d.fields[i].key = key

\* value.get(key, default)
Get(d, key, default) ==
    IF HasKey(d, key)
    THEN d.fields[CHOOSE i \in 1..Len(d.fields) : d.fields[i].key = key].value
    ELSE default

\* "object" in value.get("type", []): an element of a list, a substring of a
\* string (of the tags here only "object" holds it)
ObjectIn(t) ==
    IF t.kind = "list"
    THEN \E i \in 1..Len(t.fields) : t.fields[i].value = StringValue("object")
    ELSE t.kind = "string" /\ t.text = "object"

\* the for loop of flatten_schema over dictionary.items(), from the dict acc
RECURSIVE FlattenSchemaItems(_, _, _)
FlattenSchemaItems(ps, parent_key, acc) ==
    IF ps = <<>> THEN acc
    ELSE LET key == Head(ps).key
             value == Head(ps).value
             new_key == NewKey(parent_key, key)
             next ==
                IF ObjectIn(Get(value, "type", ListOf(<<>>)))
                THEN Update(acc, FlattenSchemaItems(
                                    Get(value, "properties", NullValue).fields,
                                    new_key, <<>>))
                ELSE DictSet(acc, new_key, Get(value, "type", NullValue))
         IN  FlattenSchemaItems(Tail(ps), parent_key, next)

\* helpers.flatten_schema(dictionary, parent_key): "if dictionary" is false
\* for None and for the empty dict
FlattenSchema(d, parent_key) == FlattenSchemaItems(d.fields, parent_key, <<>>)

\* {"type": t}
TypeDecl(t) == DictValue(<<[key |-> "type", value |-> t]>>)
\* {"anyOf": [{"type": "null"}, {"type": "string"}]}
AnyOfDecl ==
    DictValue(<<[key |-> "anyOf",
                 value |-> ListOf(<<TypeDecl(StringValue("null")),
                                    TypeDecl(StringValue("string"))>>)]>>)
NullableInteger == ListOf(<<StringValue("null"), StringValue("integer")>>)
NullableObject == ListOf(<<StringValue("null"), StringValue("object")>>)
\* the declarations of a field that is not an object; the last has no type
LeafDecls ==
    {TypeDecl(StringValue("integer")), TypeDecl(StringValue("string")),
     TypeDecl(NullableInteger), AnyOfDecl, DictValue(<<>>)}
\* the declarations of an object, with properties or without
ObjectDecls ==
    {DictValue(<<[key |-> "type", value |-> t],
                 [key |-> "properties", value |-> DictValue(ps)]>>) :
        t \in {StringValue("object"), NullableObject},
        ps \in PairsOver({"a", "b"}, LeafDecls, 1)}
    \cup {TypeDecl(NullableObject)}

\* the properties of a SCHEMA message
JsonSchemas ==
    {NullValue} \cup
    {DictValue(ps) : ps \in PairsOver({"a", "b"}, LeafDecls \cup ObjectDecls, MaxKeys)}

\* schemas[stream_name] = flatten_schema(message["schema"]["properties"])
FlattenSchemaCall ==
    /\ fpc = "schema"
    /\ items' = FlattenSchema(dictionary, "")
    /\ fpc' = "done"
    /\ UNCHANGED <<dictionary, flat_schema>>
    /\ UNCHANGED <<vars_pipeline, svars, mvars, kvars>>

InitFlattenSchema ==
    /\ InitWith({Cfg(0, 0, 0)})
    /\ SinkIdle
    /\ StoreIdle
    /\ MapperIdle
    /\ dictionary \in JsonSchemas
    /\ flat_schema = <<>>
    /\ items = <<>>
    /\ fpc = "schema"

NextFlattenSchema == FlattenSchemaCall

SpecFlattenSchema == InitFlattenSchema /\ [][NextFlattenSchema]_vars

\* the texts of the elements of a list
ElemTexts(l) == {l.fields[i].value.text : i \in 1..Len(l.fields)}

\* the type tags a declaration gives: those of its type, else the union of
\* those of its anyOf variants
RECURSIVE DeclaredTags(_)
DeclaredTags(d) ==
    IF HasKey(d, "type")
    THEN LET t == Get(d, "type", NullValue)
         IN  IF t.kind = "string" THEN {t.text} ELSE ElemTexts(t)
    ELSE IF HasKey(d, "anyOf")
    THEN LET vs == Get(d, "anyOf", NullValue).fields
         IN  UNION {DeclaredTags(vs[i].value) : i \in 1..Len(vs)}
    ELSE {}

\* C23: flatten_schema maps every non-object field to its type-set as a
\* list: a type given as one string becomes a one-element list, and a field
\* declared only through anyOf gets the union of the type tags of its
\* variants, not an empty or absent type.
C23_TypeSetAsList ==
    fpc = "done" =>
        \A i \in 1..Len(dictionary.fields) :
            LET d == dictionary.fields[i].value
                k == dictionary.fields[i].key
            IN  (DeclaredTags(d) # {} /\ "object" \notin DeclaredTags(d)) =>
                    /\ k \in DOMAIN items
                    /\ items[k].kind = "list"
                    /\ ElemTexts(items[k]) = DeclaredTags(d)

\* ------------------------------------------ _field_type_to_pyarrow_field
\* the type tags a declared schema can hold here
TypeTags ==
    {"null", "boolean", "string", "String", "array", "object", "integer",
     "number", "date"}

\* item.upper()
Upper(tag) ==
    CASE tag = "null" -> "NULL"
      [] tag = "boolean" -> "BOOLEAN"
      [] tag \in {"string", "String"} -> "STRING"
      [] tag = "array" -> "ARRAY"
      [] tag = "object" -> "OBJECT"
      [] tag = "integer" -> "INTEGER"
      [] tag = "number" -> "NUMBER"
      [] tag = "date" -> "DATE"

\* types_uppercase = {item.upper() for item in types}
TypesUppercase(types) == {Upper(t) : t \in types}

\* types_uppercase after discard("NULL")
NonNull(types) == TypesUppercase(types) \ {"NULL"}

\* list(types_uppercase)[0] if types_uppercase else "": the first element of
\* a set of strings, any of them
InputTypes(types) == IF NonNull(types) # {} THEN NonNull(types) ELSE {""}

\* helpers.FIELD_TYPE_TO_PYARROW.get(input_type, None)
HelpersPyarrowType(input_type) ==
    CASE input_type = "BOOLEAN" -> "bool"
      [] input_type = "STRING" -> "string"
      [] input_type = "ARRAY" -> "string"
      [] input_type = "" -> "string"
      [] input_type = "INTEGER" -> "int64"
      [] input_type = "NUMBER" -> "float64"
      [] OTHER -> "None"

\* utils/parquet.FIELD_TYPE_TO_PYARROW.get(input_type, pa.string())
ParquetPyarrowType(input_type) ==
    CASE input_type = "BOOLEAN" -> "bool"
      [] input_type = "STRING" -> "string"
      [] input_type = "ARRAY" -> "string"
      [] input_type = "INTEGER" -> "int64"
      [] input_type = "NUMBER" -> "float64"
      [] input_type = "OBJECT" -> "string"
      [] OTHER -> "string"

\* if not pyarrow_type: raise NotImplementedError(...);
\* return pa.field(field_name, pyarrow_type, nullable)
FieldOf(pyarrow_type, types) ==
    IF pyarrow_type = "None"
    THEN [err |-> "NotImplementedError", type |-> "none", nullable |-> FALSE]
    ELSE [err |-> "none", type |-> pyarrow_type,
          nullable |-> "NULL" \in TypesUppercase(types)]

\* utils/parquet: types = input_types.get("type", []), else those of anyOf
ParquetTypes(decl) == IF decl.type # {} THEN decl.type ELSE decl.anyOf

\* helpers._field_type_to_pyarrow_field on the "type" of the flattened schema
MapHelpers ==
    /\ mpc = "ready"
    /\ \E input_type \in InputTypes(input_types.type) :
        field' = FieldOf(HelpersPyarrowType(input_type), input_types.type)
    /\ mpc' = "helpers"
    /\ UNCHANGED input_types
    /\ UNCHANGED <<vars_pipeline, svars, fvars, kvars>>

\* utils/parquet._field_type_to_pyarrow_field
MapParquet ==
    /\ mpc = "ready"
    /\ \E input_type \in InputTypes(ParquetTypes(input_types)) :
        field' = FieldOf(ParquetPyarrowType(input_type), ParquetTypes(input_types))
    /\ mpc' = "parquet"
    /\ UNCHANGED input_types
    /\ UNCHANGED <<vars_pipeline, svars, fvars, kvars>>

\* helpers._field_type_to_pyarrow_field evaluated again on the same
\* declaration: list(types_uppercase)[0] follows the iteration order of a set
\* of strings, which the hash seed of the evaluating process decides
MapHelpersAgain ==
    /\ mpc = "helpers"
    /\ \E input_type \in InputTypes(input_types.type) :
        field' = FieldOf(HelpersPyarrowType(input_type), input_types.type)
    /\ UNCHANGED <<mpc, input_types>>
    /\ UNCHANGED <<vars_pipeline, svars, fvars, kvars>>

\* utils/parquet._field_type_to_pyarrow_field evaluated again on the same
\* declaration
MapParquetAgain ==
    /\ mpc = "parquet"
    /\ \E input_type \in InputTypes(ParquetTypes(input_types)) :
        field' = FieldOf(ParquetPyarrowType(input_type), ParquetTypes(input_types))
    /\ UNCHANGED <<mpc, input_types>>
    /\ UNCHANGED <<vars_pipeline, svars, fvars, kvars>>

\* the declarations of one field: up to two tags under "type", up to one
\* under "anyOf"
Declarations ==
    {[type |-> T, anyOf |-> A] :
        T \in {X \in SUBSET TypeTags : Cardinality(X) <= 2},
        A \in {X \in SUBSET TypeTags : Cardinality(X) <= 1}}

InitMapper ==
    /\ InitWith({Cfg(0, 0, 0)})
    /\ SinkIdle
    /\ StoreIdle
    /\ FlattenIdle
    /\ input_types \in Declarations
    /\ field = [err |-> "none", type |-> "none", nullable |-> FALSE]
    /\ mpc = "ready"

NextMapper == MapHelpers \/ MapParquet \/ MapHelpersAgain \/ MapParquetAgain

SpecMapper == InitMapper /\ [][NextMapper]_vars

\* the tags the physical-type table of the specification holds
SupportedTags == {"BOOLEAN", "STRING", "ARRAY", "", "OBJECT", "INTEGER", "NUMBER"}

\* the declared types the function applied has looked at
TypesSeen == IF mpc = "parquet" THEN ParquetTypes(input_types) ELSE input_types.type

\* C20: converting a flattened schema to a physical schema raises
\* NotImplementedError for every field whose non-null type tag is outside the
\* table BOOLEAN, STRING, ARRAY, empty, OBJECT, INTEGER, NUMBER; such a tag
\* is never mapped silently to some column type.
C20_UnsupportedTypeRaises ==
    (/\ mpc \in {"helpers", "parquet"}
     /\ Cardinality(NonNull(TypesSeen)) = 1
     /\ NonNull(TypesSeen) \cap SupportedTags = {}) =>
        field.err = "NotImplementedError"

\* the column type the physical-type table of the specification gives a tag
TableType(tag) ==
    CASE tag = "BOOLEAN" -> "bool"
      [] tag \in {"STRING", "ARRAY", "", "OBJECT"} -> "string"
      [] tag = "INTEGER" -> "int64"
      [] tag = "NUMBER" -> "float64"

\* C21: for every type-set with at most one tag besides null, the tag being
\* one of the table, the Type Mapper marks the column nullable exactly when
\* the set holds null (whatever its case) and maps the remaining tag by the
\* table boolean to bool, string/array/empty/object to string, integer to
\* int64, number to float64; a set holding only null is a nullable string.
C21_TypeTable ==
    (/\ mpc \in {"helpers", "parquet"}
     /\ Cardinality(NonNull(TypesSeen)) <= 1
     /\ NonNull(TypesSeen) \subseteq SupportedTags) =>
        /\ field.err = "none"
        /\ field.nullable = ("NULL" \in TypesUppercase(TypesSeen))
        /\ \A tag \in InputTypes(TypesSeen) : field.type = TableType(tag)

\* C40: the physical column type the type mapper chooses is a function of the
\* type-set alone: two evaluations of the same declaration, also one with two
\* or more non-null tags, give the same physical type.
C40_TypeIsFunctionOfTypeSet ==
    [][(mpc \in {"helpers", "parquet"} /\ mpc' = mpc) =>
            field'.type = field.type]_vars

\* ------------------------------------------------ the consumer's flushes
\* the streams a step wrote a file of
Flushed == {files'[i].stream : i \in (Len(files) + 1)..Len(files')}

\* the stream of the work item a step of the consumer takes, if it has one
Received == IF queue # <<>> /\ queue' = Tail(queue) THEN {Head(queue).stream} ELSE {}

\* stream S holds the same buffer, table and row count after the step
StreamUnchanged(S) ==
    /\ records'[S] = records[S]
    /\ records_count'[S] = records_count[S]
    /\ (S \in DOMAIN pyarrow_tables') = (S \in DOMAIN pyarrow_tables)
    /\ S \in DOMAIN pyarrow_tables => pyarrow_tables'[S] = pyarrow_tables[S]

\* C24: immediately after any flush of stream S (threshold, stream-switch or
\* end-of-stream), S has no accumulated table, an empty pending buffer and a
\* row counter reset to zero, and the state of every other stream (but for
\* the record the step appends) is unchanged.
C24_FlushResets ==
    [][\A S \in Flushed :
          /\ S \notin DOMAIN pyarrow_tables'
          /\ records'[S] = <<>>
          /\ records_count'[S] = 0
          /\ \A T \in Streams \ (Flushed \cup Received) : StreamUnchanged(T)]_vars

\* the line numbers of the rows of the files of stream S, in file order
RECURSIVE FileIds(_, _)
FileIds(fls, S) ==
    IF fls = <<>> THEN <<>>
    ELSE (IF Head(fls).stream = S THEN RowIds(Head(fls).rows) ELSE <<>>)
         \o FileIds(Tail(fls), S)

\* the line numbers of the records of stream S the consumer has dequeued
GotIds(S) ==
    LET g == SelectType(got_log, {"RECORD"})
    IN  FileIds([i \in Indices(g) |-> [stream |-> g[i].stream, rows |-> <<g[i]>>]], S)

\* C26: the consumer drains the current stream's pending buffer into the
\* accumulated table whenever the buffer reaches DrainEvery (1000) rows and
\* before every flush, and a drain leaves the buffer empty: a pending buffer
\* never holds more than DrainEvery rows, the rows of the files of a stream
\* followed by the rows it still holds are the records accepted for it, in
\* order, and a flush leaves nothing of the stream behind, so each file
\* holds every row accepted since the previous flush of its stream.
C26_DrainBeforeFlush ==
    /\ [](\A S \in Streams :
            /\ Len(records[S]) <= DrainEvery
            /\ cpc # "crashed" =>
                 FileIds(files, S) \o HeldIds(pyarrow_tables, records, S) = GotIds(S))
    /\ [][\A S \in Flushed : HeldIds(pyarrow_tables', records', S) = <<>>]_vars

\* a file holds more rows than one drain takes: rows drained at the
\* DrainEvery mark and rows drained by the flush
C26_Witness ==
    \E i \in 1..Len(files) :
        /\ Len(files[i].rows) > DrainEvery
        /\ RowIds(files[i].rows) = GotIds(files[i].stream)

\* C27: after the consumer finishes processing any work item, every stream
\* other than the current stream has an empty pending buffer and no
\* accumulated table: at most one stream holds unflushed rows at a time.
C27_OneHotStream ==
    \A S \in Streams :
        S # LastRecordStream(got_log) /\ cpc # "crashed" =>
            /\ records[S] = <<>>
            /\ S \notin DOMAIN pyarrow_tables

\* the consumer went from stream A to stream B: the rows of A are in a
\* file and B holds a row that is not flushed
C27_Witness ==
    /\ cpc = "run"
    /\ current_stream_name = "B"
    /\ records["B"] # <<>>
    /\ \E i \in 1..Len(files) : files[i].stream = "A" /\ files[i].cause = "switch"
    /\ records["A"] = <<>> /\ "A" \notin DOMAIN pyarrow_tables

\* the line numbers of the RECORD lines of stream S in the input
InputIds(S) ==
    LET w == WorkOf(read)
    IN  FileIds([i \in Indices(w) |->
                   [stream |-> IF w[i][1] = "RECORD" THEN w[i][2] ELSE NoStream,
                    rows |-> <<[id |-> w[i][3]]>>]], S)

\* C36: when persist_messages completes normally, for every stream X the
\* rows of all files written for X, taken together, are exactly the RECORD
\* messages of X in the input, each record exactly once: no record is lost
\* or written twice, for any interleaving of streams and any thresholds.
C36_NoRecordLost ==
    Returned => \A X \in Streams : FileIds(files, X) = InputIds(X)

\* a sequence of line numbers in input order
Increasing(ids) == \A i, j \in 1..Len(ids) : i < j => ids[i] < ids[j]

\* C37: for every stream, files are published one at a time in the order of
\* their flushes, rows inside a file are in input order, and every row of an
\* earlier file of the stream precedes in the input every row of a later
\* file of that stream.
C37_FilesInOrder ==
    /\ [](\A S \in Streams : Increasing(FileIds(files, S)))
    /\ [][/\ IsPrefix(files, files')
          /\ \A S \in Streams :
               Cardinality({i \in (Len(files) + 1)..Len(files') :
                              files'[i].stream = S}) <= 1]_vars

\* a stream has two files, the earlier one of two rows or more
C37_Witness ==
    \E i, j \in 1..Len(files) :
        /\ i < j
        /\ files[i].stream = files[j].stream
        /\ Len(files[i].rows) >= 2
        /\ files[j].rows # <<>>

\* ------------------------------------------- a producer that fails late
\* inputs of two streams that end, or not, with a line that is not JSON
MaxFailingInput == 5

FailingMessages ==
    SchemaMsgs(Streams) \cup RecordMsgs(Streams, {HalfMb}) \cup {MalformedMsg}

FailingConfigs == { Cfg(1, 0, 0), Cfg(1, 0, 1) }

InitFailing == InitWith(FailingConfigs) /\ AuxIdle

ProducerFailing ==
    \/ \E msg \in FailingMessages : ReadLine(msg, MaxFailingInput)
    \/ EndOfInput
    \/ ResumePut

NextFailing == ProducerFailing \/ Main \/ Consumer

SpecFailing == InitFailing /\ [][NextFailing]_vars

\* the line numbers of the RECORD items of stream S the producer has put
PutIds(S) ==
    LET g == SelectType(put_log, {"RECORD"})
    IN  FileIds([i \in Indices(g) |-> [stream |-> g[i].stream, rows |-> <<g[i]>>]], S)

\* C39: when the producer fails on some input line, every RECORD work item
\* it enqueued before the failure is still processed by the consumer and
\* written to the store before the consumer terminates (the store accepting
\* every upload).
C39_WrittenBeforeFailure ==
    (Failed /\ ConsumerEnded /\ cerr # "UploadError") =>
        \A S \in Streams : FileIds(files, S) = PutIds(S)

\* --------------------------------------------------------- sinks.hdfsSink
\* at most this many records reach the sink, in batches of at most
\* MaxBatchRows
MaxSinkRows == 4
MaxBatchRows == 2

\* self.pyarrow_df = None
NoTable == [some |-> FALSE, rows |-> <<>>]

\* the batches: records of half a MB or of one MB, numbered from k + 1
SinkBatches(k) ==
    {[i \in 1..Len(z) |-> [id |-> k + i, size |-> z[i]]] :
        z \in UNION {[1..m -> {HalfMb, BytesPerMb}] : m \in 1..MaxBatchRows}}

\* variant: the new table takes the place of the accumulated one
SinkConcatTablesReplacing(recs, pyarrow_table) ==
    IF recs = <<>> THEN pyarrow_table ELSE [some |-> TRUE, rows |-> recs]

\* utils.parquet.concat_tables(records, pyarrow_table, pyarrow_schema): a
\* table is true when it has rows
SinkConcatTables(recs, pyarrow_table) ==
    IF recs = <<>> THEN pyarrow_table
    ELSE IF pyarrow_table.some /\ pyarrow_table.rows # <<>>
    THEN [some |-> TRUE, rows |-> pyarrow_table.rows \o recs]
    ELSE [some |-> TRUE, rows |-> recs]

\* get_pyarrow_table_size(self.pyarrow_df) > self.config["max_pyarrow_table_size"]
TableSizeExceeded(t, mb) == SumSizes(t.rows) > mb * BytesPerMb

\* the file of one write_to_dataset call: basename_template
\* "{stream_name}-{timestamp}-{i}" with the timestamp of the start of the
\* sync to the second, i counting the files of this call from 0, and the
\* extension of the compression
SinkFileName(stream, started, i) ==
    stream \o "-" \o ToString(started \div 1000) \o "-" \o ToString(i)
           \o ".gz.parquet"

\* hdfsSink._write_and_upload_file: the table is written to the output
\* directory, a file of the same name is replaced; nothing is uploaded
WriteAndUploadFile(df, out, log, stream, started) ==
    IF df.some
    THEN [pyarrow_df |-> NoTable,
          temp_output_path |-> DictSet(out, SinkFileName(stream, started, 0), df.rows),
          written |-> Append(log, [name |-> SinkFileName(stream, started, 0),
                                   rows |-> df.rows])]
    ELSE [pyarrow_df |-> df, temp_output_path |-> out, written |-> log]

\* hdfsSink.process_batch(context)
ProcessBatch(batch) ==
    /\ kpc = "open"
    /\ received + Len(batch) <= MaxSinkRows
    /\ received' = received + Len(batch)
    /\ \E r \in {LET df == SinkConcatTables(batch, pyarrow_df)
                 IN  IF TableSizeExceeded(df, max_pyarrow_table_size)
                     THEN WriteAndUploadFile(df, temp_output_path, written,
                                             stream_name, sync_started_at)
                     ELSE [pyarrow_df |-> df,
                           temp_output_path |-> temp_output_path,
                           written |-> written]} :
          /\ pyarrow_df' = r.pyarrow_df
          /\ temp_output_path' = r.temp_output_path
          /\ written' = r.written
    /\ UNCHANGED <<stream_name, sync_started_at, max_pyarrow_table_size, kpc>>
    /\ UNCHANGED <<vars_pipeline, svars, fvars, mvars>>

\* hdfsSink.clean_up()
CleanUp ==
    /\ kpc = "open"
    /\ kpc' = "closed"
    /\ \E r \in {WriteAndUploadFile(pyarrow_df, temp_output_path, written,
                                    stream_name, sync_started_at)} :
          /\ pyarrow_df' = r.pyarrow_df
          /\ temp_output_path' = r.temp_output_path
          /\ written' = r.written
    /\ UNCHANGED <<stream_name, sync_started_at, max_pyarrow_table_size, received>>
    /\ UNCHANGED <<vars_pipeline, svars, fvars, mvars>>

\* hdfsSink.__init__
InitSink ==
    /\ InitWith({Cfg(0, 0, 0)})
    /\ StoreIdle
    /\ FlattenIdle
    /\ MapperIdle
    /\ stream_name \in Streams
    /\ sync_started_at \in {0, 1500}
    /\ max_pyarrow_table_size \in {1, 2}
    /\ pyarrow_df = NoTable
    /\ temp_output_path = <<>>
    /\ written = <<>>
    /\ received = 0
    /\ kpc = "open"

NextSink ==
    \/ \E batch \in SinkBatches(received) : ProcessBatch(batch)
    \/ CleanUp

SpecSink == InitSink /\ [][NextSink]_vars

\* the table process_batch compared with the threshold in this step
Compared == IF Len(written') > Len(written) THEN Last(written').rows ELSE pyarrow_df'.rows

\* C25: after each accepted record a threshold flush happens if and only if
\* rows_per_file is set and the row count of the stream is an exact positive
\* multiple of it, or a byte-size threshold is set and the in-memory size of
\* the accumulated table meets or exceeds it (equality triggers the flush).
\* For process_batch, which has the byte-size threshold only: the table is
\* written exactly when its size is at least the threshold.
C25_ThresholdFlush ==
    [][received' > received =>
         ((Len(written') > Len(written)) <=>
            SumSizes(Compared) >= max_pyarrow_table_size * BytesPerMb)]_vars

\* C28: within one run two distinct flushes never write to the same output
\* path: every flush gets a file name not used by an earlier flush, so no
\* file written earlier in the run is overwritten by a later flush.
C28_UniquePaths ==
    /\ \A i, j \in 1..Len(written) : i # j => written[i].name # written[j].name
    /\ \A i \in 1..Len(written) :
          /\ written[i].name \in DOMAIN temp_output_path
          /\ temp_output_path[written[i].name] = written[i].rows

\* the numbers of the records of the tables written so far, in order
RECURSIVE WrittenIds(_)
WrittenIds(log) ==
    IF log = <<>> THEN <<>> ELSE RowIds(Head(log).rows) \o WrittenIds(Tail(log))

\* C35: in hdfsSink every record handed to process_batch before clean_up is
\* contained in exactly one table passed to write_parquet_file; after a
\* write, and after clean_up, the accumulated table pyarrow_df is absent,
\* and clean_up writes nothing when pyarrow_df is already absent.
C35_SinkWritesOnce ==
    /\ [](kpc # "off" =>
            WrittenIds(written) \o RowIds(pyarrow_df.rows) = [i \in 1..received |-> i])
    /\ [](kpc = "closed" => ~pyarrow_df.some /\ pyarrow_df.rows = <<>>)
    /\ [][Len(written') > Len(written) =>
            /\ Len(written') = Len(written) + 1
            /\ Last(written').rows # <<>>
            /\ ~pyarrow_df'.some]_vars
    /\ [][(kpc = "open" /\ kpc' = "closed" /\ ~pyarrow_df.some) =>
            written' = written]_vars

\* the sink is closed after two writes or more: one by process_batch of a
\* table of three rows or more, one by clean_up
C35_Witness ==
    /\ kpc = "closed"
    /\ Len(written) >= 2
    /\ \E i \in 1..Len(written) : Len(written[i].rows) >= 3
    /\ WrittenIds(written) = [i \in 1..received |-> i]
====
